---- MODULE Spec2Model ----
(***************************************************************************)
(* Python/pycore_backoff.c: seven file-scope definitions                   *)
(*     int <global> = <macro or literal>;                                  *)
(* and nothing else (no function, no statement).                           *)
(*                                                                         *)
(* State:                                                                  *)
(*   macros   the values the included headers give the six macros the     *)
(*            initializers name; fixed at compile time, so chosen in Init  *)
(*            and never changed;                                           *)
(*   mem      the storage of the globals: a function from the names of the *)
(*            globals whose definition has been loaded to their values;    *)
(*   observed the last value a consumer outside this file read through one *)
(*            of the symbols;                                              *)
(*   written  the symbols a consumer outside this file has stored to.      *)
(*                                                                         *)
(* Spec     is the file with a consumer that only reads the symbols.       *)
(* SpecOpen is the file with a consumer that may store to them.            *)
(***************************************************************************)
EXTENDS Integers, FiniteSets, Sequences, TLC

VARIABLES macros, mem, observed, written

vars == <<macros, mem, observed, written>>

\* Header macros take values in 0..MaxMacro.
MaxMacro == 1

\* The consumer of SpecOpen stores to at most MaxWritten different symbols.
MaxWritten == 1

\* The literal of line 18.
ConfidenceLowerLimitLiteral == 333

MacroValues == 0..MaxMacro

\* The macros the initializers of lines 9-16 name (defined by the headers of
\* lines 3-6).
MacroNames ==
    { "JUMP_BACKWARD_INITIAL_VALUE", "JUMP_BACKWARD_INITIAL_BACKOFF",
      "SIDE_EXIT_INITIAL_VALUE", "SIDE_EXIT_INITIAL_BACKOFF",
      "ADAPTIVE_COOLDOWN_VALUE", "MAX_CHAIN_DEPTH" }

\* Mutant of Declarations: the two side-exit definitions are left out.
DeclarationsWithoutSideExit ==
    << [name |-> "_Py_JumpBackwardInitialValue",   type |-> "int", const |-> FALSE, linkage |-> "external"],
       [name |-> "_Py_JumpBackwardInitialBackoff", type |-> "int", const |-> FALSE, linkage |-> "external"],
       [name |-> "_Py_AdaptiveCoolDownValue",      type |-> "int", const |-> FALSE, linkage |-> "external"],
       [name |-> "_Py_MaxChainDepth",              type |-> "int", const |-> FALSE, linkage |-> "external"],
       [name |-> "_Py_ConfidenceLowerLimit",       type |-> "int", const |-> FALSE, linkage |-> "external"] >>

\* Mutant of Declarations: the cooldown definition is left out.
DeclarationsWithoutCoolDown ==
    << [name |-> "_Py_JumpBackwardInitialValue",   type |-> "int", const |-> FALSE, linkage |-> "external"],
       [name |-> "_Py_JumpBackwardInitialBackoff", type |-> "int", const |-> FALSE, linkage |-> "external"],
       [name |-> "_Py_SideExitInitialValue",       type |-> "int", const |-> FALSE, linkage |-> "external"],
       [name |-> "_Py_SideExitInitialBackoff",     type |-> "int", const |-> FALSE, linkage |-> "external"],
       [name |-> "_Py_MaxChainDepth",              type |-> "int", const |-> FALSE, linkage |-> "external"],
       [name |-> "_Py_ConfidenceLowerLimit",       type |-> "int", const |-> FALSE, linkage |-> "external"] >>

\* Mutant of Declarations: every definition is qualified const.
DeclarationsConst ==
    << [name |-> "_Py_JumpBackwardInitialValue",   type |-> "int", const |-> TRUE, linkage |-> "external"],
       [name |-> "_Py_JumpBackwardInitialBackoff", type |-> "int", const |-> TRUE, linkage |-> "external"],
       [name |-> "_Py_SideExitInitialValue",       type |-> "int", const |-> TRUE, linkage |-> "external"],
       [name |-> "_Py_SideExitInitialBackoff",     type |-> "int", const |-> TRUE, linkage |-> "external"],
       [name |-> "_Py_AdaptiveCoolDownValue",      type |-> "int", const |-> TRUE, linkage |-> "external"],
       [name |-> "_Py_MaxChainDepth",              type |-> "int", const |-> TRUE, linkage |-> "external"],
       [name |-> "_Py_ConfidenceLowerLimit",       type |-> "int", const |-> TRUE, linkage |-> "external"] >>

\* The file-scope definitions, in source order (lines 9, 10, 12, 13, 15, 16,
\* 18): each is a plain `int`, not const, not static.
Declarations ==
    << [name |-> "_Py_JumpBackwardInitialValue",   type |-> "int", const |-> FALSE, linkage |-> "external"],
       [name |-> "_Py_JumpBackwardInitialBackoff", type |-> "int", const |-> FALSE, linkage |-> "external"],
       [name |-> "_Py_SideExitInitialValue",       type |-> "int", const |-> FALSE, linkage |-> "external"],
       [name |-> "_Py_SideExitInitialBackoff",     type |-> "int", const |-> FALSE, linkage |-> "external"],
       [name |-> "_Py_AdaptiveCoolDownValue",      type |-> "int", const |-> FALSE, linkage |-> "external"],
       [name |-> "_Py_MaxChainDepth",              type |-> "int", const |-> FALSE, linkage |-> "external"],
       [name |-> "_Py_ConfidenceLowerLimit",       type |-> "int", const |-> FALSE, linkage |-> "external"] >>

\* The names the file defines.
Globals == { Declarations[i].name : i \in 1..Len(Declarations) }

\* A symbol another translation unit can store to: external linkage and not
\* const.
Writable(g) ==
    \E i \in 1..Len(Declarations) :
        /\ Declarations[i].name = g
        /\ Declarations[i].linkage = "external"
        /\ ~Declarations[i].const

\* Mutant of Initializer: the side-exit pair is wired to the jump-backward
\* macros.
InitializerCrossWired(g, m) ==
    CASE g = "_Py_JumpBackwardInitialValue"   -> m["JUMP_BACKWARD_INITIAL_VALUE"]
      [] g = "_Py_JumpBackwardInitialBackoff" -> m["JUMP_BACKWARD_INITIAL_BACKOFF"]
      [] g = "_Py_SideExitInitialValue"       -> m["JUMP_BACKWARD_INITIAL_VALUE"]
      [] g = "_Py_SideExitInitialBackoff"     -> m["JUMP_BACKWARD_INITIAL_BACKOFF"]
      [] g = "_Py_AdaptiveCoolDownValue"      -> m["ADAPTIVE_COOLDOWN_VALUE"]
      [] g = "_Py_MaxChainDepth"              -> m["MAX_CHAIN_DEPTH"]
      [] g = "_Py_ConfidenceLowerLimit"       -> ConfidenceLowerLimitLiteral

\* The value of the initializer of global g when the macros have the values m.
Initializer(g, m) ==
    CASE g = "_Py_JumpBackwardInitialValue"   -> m["JUMP_BACKWARD_INITIAL_VALUE"]
      [] g = "_Py_JumpBackwardInitialBackoff" -> m["JUMP_BACKWARD_INITIAL_BACKOFF"]
      [] g = "_Py_SideExitInitialValue"       -> m["SIDE_EXIT_INITIAL_VALUE"]
      [] g = "_Py_SideExitInitialBackoff"     -> m["SIDE_EXIT_INITIAL_BACKOFF"]
      [] g = "_Py_AdaptiveCoolDownValue"      -> m["ADAPTIVE_COOLDOWN_VALUE"]
      [] g = "_Py_MaxChainDepth"              -> m["MAX_CHAIN_DEPTH"]
      [] g = "_Py_ConfidenceLowerLimit"       -> ConfidenceLowerLimitLiteral

\* Mutant of Define: the initializer of _Py_JumpBackwardInitialBackoff reads
\* the global _Py_SideExitInitialBackoff (0 while that one is not yet
\* initialized) instead of a macro.
DefineReadingGlobal(memory, g, m) ==
    [h \in DOMAIN memory \cup {g} |->
        IF h # g THEN memory[h]
        ELSE IF g = "_Py_JumpBackwardInitialBackoff"
             THEN IF "_Py_SideExitInitialBackoff" \in DOMAIN memory
                  THEN memory["_Py_SideExitInitialBackoff"]
                  ELSE 0
             ELSE Initializer(g, m)]

\* Mutant of Define: the object of g shares its storage with every global
\* already defined.
DefineAliased(memory, g, m) ==
    [h \in DOMAIN memory \cup {g} |-> Initializer(g, m)]

\* The storage after the definition of g has taken effect: g holds the value of
\* its initializer, every other global is as it was.
Define(memory, g, m) ==
    [h \in DOMAIN memory \cup {g} |->
        IF h = g THEN Initializer(g, m) ELSE memory[h]]

\* Every definition of the file has taken effect.
LoadComplete == \A i \in 1..Len(Declarations) : Declarations[i].name \in DOMAIN mem

NotObserved == [symbol |-> "none", value |-> 0]

Init ==
    /\ macros \in [MacroNames -> MacroValues]
    /\ mem = <<>>
    /\ observed = NotObserved
    /\ written = {}

\* Mutant of StaticInit: the definition is also an assignment statement that
\* runs again and resets an initialized global to 0.
StaticInitReassigning(g) ==
    /\ mem' = IF g \in DOMAIN mem THEN [mem EXCEPT ![g] = 0]
              ELSE Define(mem, g, macros)
    /\ UNCHANGED <<macros, observed, written>>

\* The definition of global g takes effect (static initialization; no order
\* among the seven is observable, so any order is allowed).
StaticInit(g) ==
    /\ g \notin DOMAIN mem
    /\ mem' = Define(mem, g, macros)
    /\ UNCHANGED <<macros, observed, written>>

\* A consumer outside this file reads the symbol g.
Load(g) ==
    /\ LoadComplete
    /\ observed' = [symbol |-> g, value |-> mem[g]]
    /\ UNCHANGED <<macros, mem, written>>

\* A consumer outside this file stores v through the symbol g.
Store(g, v) ==
    /\ LoadComplete
    /\ Writable(g)
    /\ g \in written \/ Cardinality(written) < MaxWritten
    /\ mem' = [mem EXCEPT ![g] = v]
    /\ written' = written \cup {g}
    /\ UNCHANGED <<macros, observed>>

Next ==
    \/ \E g \in Globals : StaticInit(g)
    \/ \E g \in Globals : Load(g)

Spec == Init /\ [][Next]_vars

\* The consumer's reads change nothing a store depends on and are left out.
NextOpen ==
    \/ \E g \in Globals : StaticInit(g)
    \/ \E g \in Globals, v \in MacroValues : Store(g, v)

SpecOpen == Init /\ [][NextOpen]_vars

\* The source-order initialization: the definitions of Declarations[i..] take
\* effect one after the other on memory.
RECURSIVE DefineAll(_, _, _)
DefineAll(memory, i, m) ==
    IF i > Len(Declarations) THEN memory
    ELSE DefineAll(Define(memory, Declarations[i].name, m), i + 1, m)

\* The kind of tunable a global is, read off its identifier.
Kind(g) ==
    CASE g \in { "_Py_JumpBackwardInitialValue", "_Py_JumpBackwardInitialBackoff",
                 "_Py_SideExitInitialValue", "_Py_SideExitInitialBackoff" }
                                        -> "initial backoff counter"
      [] g = "_Py_AdaptiveCoolDownValue" -> "cooldown threshold"
      [] g = "_Py_ConfidenceLowerLimit"  -> "confidence limit"
      [] g = "_Py_MaxChainDepth"         -> "max trace-chain depth"
      [] OTHER                           -> "other"

(***************************************************************************)
(* Claims                                                                  *)
(***************************************************************************)

\* C1: the globals are constants: in every reachable state of the file with a
\* reading consumer, every global that has been initialized still holds the
\* value of its initializer.
C1_GlobalsKeepInitializer ==
    \A g \in DOMAIN mem : mem[g] = Initializer(g, macros)

\* C1 witness: static initialization is over and the consumer has read a
\* global.
C1_Witness ==
    /\ LoadComplete
    /\ observed.symbol = "_Py_JumpBackwardInitialValue"

\* C2 as stated: the file defines exactly five integer constants.
C2_FiveConstants ==
    LoadComplete => Cardinality(DOMAIN mem) = 5

\* C2 amended: the file defines exactly seven integer globals.
C2_SevenConstants ==
    LoadComplete => /\ Cardinality(DOMAIN mem) = 7
                    /\ \A g \in DOMAIN mem : mem[g] \in Int

\* C2 witness: every definition has taken effect and nothing else has happened.
C2_Witness ==
    /\ LoadComplete
    /\ observed = NotObserved

\* C3: no step assigns to a global: every step leaves every initialized global
\* as it is, and a global a step brings into being holds its initializer (the
\* only change to the storage is the initial assignment).
C3_NoAssignment ==
    [][ /\ \A g \in DOMAIN mem : g \in DOMAIN mem' /\ mem'[g] = mem[g]
        /\ \A g \in DOMAIN mem' \ DOMAIN mem : mem'[g] = Initializer(g, macros)
      ]_vars

\* C3 witness: steps have been taken after the initial assignments.
C3_Witness ==
    /\ LoadComplete
    /\ observed.symbol = "_Py_MaxChainDepth"
    /\ observed.value = mem["_Py_MaxChainDepth"]

\* C4: the kinds of the globals the file defines are exactly the four kinds
\* listed (initial backoff counter, cooldown threshold, confidence limit, max
\* trace-chain depth): every kind has a global and every global has a kind.
C4_KindsCovered ==
    LoadComplete =>
        { Kind(g) : g \in DOMAIN mem } =
            { "initial backoff counter", "cooldown threshold",
              "confidence limit", "max trace-chain depth" }

\* C4 witness: all definitions have taken effect, the cooldown threshold among
\* them, and the consumer has read it.
C4_Witness ==
    /\ LoadComplete
    /\ observed.symbol = "_Py_AdaptiveCoolDownValue"

\* C5: initial values: _Py_ConfidenceLowerLimit is 333 whatever the macros,
\* every other global has the value of its same-named macro.
C5_InitialValues ==
    LoadComplete =>
        /\ mem["_Py_JumpBackwardInitialValue"]   = macros["JUMP_BACKWARD_INITIAL_VALUE"]
        /\ mem["_Py_JumpBackwardInitialBackoff"] = macros["JUMP_BACKWARD_INITIAL_BACKOFF"]
        /\ mem["_Py_SideExitInitialValue"]       = macros["SIDE_EXIT_INITIAL_VALUE"]
        /\ mem["_Py_SideExitInitialBackoff"]     = macros["SIDE_EXIT_INITIAL_BACKOFF"]
        /\ mem["_Py_AdaptiveCoolDownValue"]      = macros["ADAPTIVE_COOLDOWN_VALUE"]
        /\ mem["_Py_MaxChainDepth"]              = macros["MAX_CHAIN_DEPTH"]
        /\ mem["_Py_ConfidenceLowerLimit"]       = 333

\* C5 witness: initialization is over with macros that tell the jump-backward
\* pair from the side-exit pair and value from backoff.
C5_Witness ==
    /\ LoadComplete
    /\ macros["JUMP_BACKWARD_INITIAL_VALUE"] # macros["SIDE_EXIT_INITIAL_VALUE"]
    /\ macros["JUMP_BACKWARD_INITIAL_BACKOFF"] # macros["SIDE_EXIT_INITIAL_BACKOFF"]
    /\ macros["JUMP_BACKWARD_INITIAL_VALUE"] # macros["JUMP_BACKWARD_INITIAL_BACKOFF"]
    /\ macros["SIDE_EXIT_INITIAL_VALUE"] # macros["SIDE_EXIT_INITIAL_BACKOFF"]

\* C6: constancy is not enforced by the file: composed with a consumer that may
\* store to the symbols, once initialization is over a step that makes a global
\* differ from its initializer is possible for each of the seven globals (as
\* long as the consumer's bound on stores allows a store to it).
C6_ConstancyNotEnforced ==
    LoadComplete =>
        \A g \in Globals :
            (g \in written \/ Cardinality(written) < MaxWritten) =>
                ENABLED (\E v \in MacroValues :
                            Store(g, v) /\ mem'[g] # Initializer(g, macros))

\* C6 witness: a state in which a global differs from its initializer.
C6_Witness ==
    /\ LoadComplete
    /\ \E g \in Globals : mem[g] # Initializer(g, macros)

\* C7: the initial state is unique: whatever the order in which the definitions
\* take effect, each global holds the value the source-order initialization
\* gives it, and the complete storage is the source-order one.
C7_OrderIndependent ==
    /\ \A g \in DOMAIN mem : mem[g] = DefineAll(<<>>, 1, macros)[g]
    /\ LoadComplete => mem = DefineAll(<<>>, 1, macros)

\* C7 witness: an initialization that is not in source order (the last
\* definition has taken effect, the first has not), with a nonzero macro.
C7_Witness ==
    /\ "_Py_ConfidenceLowerLimit" \in DOMAIN mem
    /\ "_Py_SideExitInitialBackoff" \in DOMAIN mem
    /\ "_Py_JumpBackwardInitialValue" \notin DOMAIN mem
    /\ macros["SIDE_EXIT_INITIAL_BACKOFF"] # 0
====
